---- MODULE Spec2Model ----
(***************************************************************************)
(* StationWindow (src/StationWindow.cpp): the roster list widget, the      *)
(* three name-keyed maps senders / senderControllers / senderWindows, the  *)
(* closeSelf connections of the sender windows, and the handlers that      *)
(* change them.                                                            *)
(*                                                                         *)
(* Objects held by the maps are identified by <<name, id>>: a newly        *)
(* allocated object gets an id different from the object that is still     *)
(* alive under the same key, so that "replaced" and "preserved" differ.    *)
(***************************************************************************)
EXTENDS Integers, Sequences, FiniteSets, TLC

\* Bound on the number of items of ui->listWidget.
MaxItems == 3

\* Bound on the number of exceptions the caller of a slot catches.
MaxCaught == 1

\* Drone names the controller may announce (droneNameAdded / droneNameRemoved).
\* The empty QString is a QString like any other.
DroneNames == {"", "alpha"}

\* Which of the three new-expressions of startSenderHandler throws, if any.
Failures == {"none", "sender", "controller", "window"}

VARIABLES
    listWidget,         \* texts of the items of ui->listWidget, in row order
    currentRow,         \* row of ui->listWidget->currentItem(), 0 for nullptr
    senders,            \* name -> id of the Sender owned under that key
    senderControllers,  \* name -> [id, sender]: SenderController and the Sender it was built on
    senderWindows,      \* name -> [id, controller]: SenderWindow and the SenderController it was built on
    connections,        \* <<name, id>> of a SenderWindow -> number of closeSelf connections to senderWindowCloseHandler
    shown,              \* set of <<name, id>> of the SenderWindows that show() was called on and that are alive
    status,             \* "running", or how the program left normal execution
    last,               \* the last handler that ran: [op, name, result]
    log,                \* what the last handler did, in order: <<event, name, id>>
    caught,             \* exceptions that left a slot and were caught by its caller
    inputsEnabled,      \* settings input -> whether the widget is enabled
    inputs,             \* settings input -> its text
    statusLabel,        \* ui->status: [text, rate, color]
    dtLabel             \* ui->dtLabel: <<prefix, milliseconds, suffix>>

vars == <<listWidget, currentRow, senders, senderControllers, senderWindows,
          connections, shown, status, last, log, caught,
          inputsEnabled, inputs, statusLabel, dtLabel>>

\* The widgets of the main window outside the roster.
station == <<inputsEnabled, inputs, statusLabel, dtLabel>>

maps == <<senders, senderControllers, senderWindows>>

\* The roster and the sender sessions.
session == <<listWidget, currentRow, maps, connections, shown, status, caught>>

----------------------------------------------------------------------------
(* Helpers on maps (std::map<QString, std::unique_ptr<T>>). *)

\* A default-constructed map.
EmptyMap == [k \in {} |-> 0]

\* m.erase(it) for an iterator that points at key n.
Without(m, n) == [k \in (DOMAIN m) \ {n} |-> m[k]]

\* m[n] = std::move(p): insert or overwrite.
Assign(m, n, v) == [k \in (DOMAIN m) \cup {n} |-> IF k = n THEN v ELSE m[k]]

\* Id of a fresh Sender: differs from the Sender still alive under key n.
FreshSenderId(n) == IF n \in DOMAIN senders /\ senders[n] = 1 THEN 2 ELSE 1

FreshControllerId(n) ==
    IF n \in DOMAIN senderControllers /\ senderControllers[n].id = 1 THEN 2 ELSE 1

FreshWindowId(n) ==
    IF n \in DOMAIN senderWindows /\ senderWindows[n].id = 1 THEN 2 ELSE 1

\* QObject::~QObject of a window: all its connections go with it.
Disconnected(c, w) == [x \in (DOMAIN c) \ {w} |-> c[x]]

\* QObject::connect: one more connection from window w (Qt does not de-duplicate).
Connected(c, w) ==
    [x \in (DOMAIN c) \cup {w} |->
        IF x = w THEN (IF w \in DOMAIN c THEN c[w] + 1 ELSE 1) ELSE c[x]]

----------------------------------------------------------------------------
(* The connection settings and the labels of the main window. *)

\* The four settings inputs of the form.
SettingsInputs ==
    {"hostAddressLine", "hostPortLine", "viconGPSLine", "NorthMapComboBox"}

\* Texts an input can hold: what initialize() puts there and what the user
\* may put there instead.
InputTexts ==
    [hostAddressLine  |-> {"192.168.1.2", "localhost"},
     hostPortLine     |-> {"801", "65536", "port"},
     viconGPSLine     |-> {"40.1,-88.2", ""},
     NorthMapComboBox |-> {"-x", "+y"}]

\* initialize(): the texts are those of the controller's settings, and the
\* north axis is "-x".
InitialInputs ==
    [hostAddressLine  |-> "192.168.1.2",
     hostPortLine     |-> "801",
     viconGPSLine     |-> "40.1,-88.2",
     NorthMapComboBox |-> "-x"]

\* QString::toUShort(): the number the text denotes when it is one in
\* 0..65535, otherwise 0.
toUShort(text) == IF text = "801" THEN 801 ELSE 0

\* Frame rates controller->getFrameRate() may report.
FrameRates == {100, 200}

\* Values of dt (seconds) the controller may report with dtUpdated, written
\* in microseconds.
DtMicros == {999, 10500}

\* int(dt*1000): the milliseconds of dt, the fraction cut off.
Milliseconds(micros) == micros \div 1000

\* setOffline(): the text and the color of the status label.
OffLine == [text |-> "OFF LINE", rate |-> 0, color |-> "red"]

\* setOnline(): "ON LINE (" + rate + "Hz)" in dark green.
OnLine(rate) == [text |-> "ON LINE", rate |-> rate, color |-> "darkGreen"]

----------------------------------------------------------------------------
Init ==
    /\ listWidget = <<>>
    /\ currentRow = 0
    /\ senders = EmptyMap
    /\ senderControllers = EmptyMap
    /\ senderWindows = EmptyMap
    /\ connections = EmptyMap
    /\ shown = {}
    /\ status = "running"
    /\ last = [op |-> "constructor", name |-> "", result |-> "ok"]
    /\ log = <<>>
    /\ caught = 0
    /\ inputsEnabled = [w \in SettingsInputs |-> TRUE]
    /\ inputs = InitialInputs
    /\ statusLabel = OffLine
    /\ dtLabel = <<"", 0, "">>

----------------------------------------------------------------------------
(* The roster: ui->listWidget. *)

\* Names the roster is exercised with: the drone names and one that differs
\* from "alpha" in case only.
RosterNames == DroneNames \cup {"Alpha"}

\* Case folding of the names above.
Lower(text) == IF text = "Alpha" THEN "alpha" ELSE text

\* The match done without regard to case.
findItems_CaseInsensitive(list, name) ==
    {i \in 1..Len(list) : Lower(list[i]) = Lower(name)}

\* The rows of the items findItems(name, Qt::MatchCaseSensitive) returns:
\* exact, case-sensitive match of the item text.
findItems(list, name) == {i \in 1..Len(list) : list[i] = name}

\* The list with row r taken out (delete item).
RemoveAt(list, r) == SubSeq(list, 1, r - 1) \o SubSeq(list, r + 1, Len(list))

\* The current row after row r of a list of len rows is deleted: the current
\* item stays the same item; if it was the deleted one the view moves to the
\* row above, else to the row below, else there is no current item.
CurrentAfterDelete(cur, r, len) ==
    IF cur = r
    THEN (IF r > 1 THEN r - 1 ELSE IF r < len THEN 1 ELSE 0)
    ELSE IF cur > r THEN cur - 1 ELSE cur

\* The loop of removeName: every found item is deleted, in row order.
RECURSIVE DeleteItems(_, _, _)
DeleteItems(list, cur, name) ==
    IF findItems(list, name) = {}
    THEN <<list, cur>>
    ELSE LET r == CHOOSE i \in findItems(list, name) :
                      \A j \in findItems(list, name) : i <= j
         IN  DeleteItems(RemoveAt(list, r),
                         CurrentAfterDelete(cur, r, Len(list)), name)

\* The rows of a set in ascending order.
RECURSIVE Ascending(_)
Ascending(rows) ==
    IF rows = {} THEN <<>>
    ELSE LET r == CHOOSE i \in rows : \A j \in rows : i <= j
         IN  <<r>> \o Ascending(rows \ {r})

\* What the loop of removeName deletes: the found items, by their row before
\* the call.
DeletedItems(list, name) ==
    LET rows == Ascending(findItems(list, name))
    IN  [i \in 1..Len(rows) |-> <<"delete item", name, rows[i]>>]

\* StationWindow::addName, the slot of StationController::droneNameAdded.
addName(name) ==
    /\ status = "running"
    /\ Len(listWidget) < MaxItems
    /\ listWidget' = Append(listWidget, name)
    /\ last' = [op |-> "addName", name |-> name, result |-> "ok"]
    /\ log' = <<>>
    /\ UNCHANGED <<currentRow, maps, connections, shown, status, caught, station>>

\* removeName that also tears down the session registered under the name.
removeName_TearsDown(name) ==
    /\ status = "running"
    /\ LET after == DeleteItems(listWidget, currentRow, name)
       IN  /\ listWidget' = after[1]
           /\ currentRow' = after[2]
    /\ last' = [op |-> "removeName", name |-> name, result |-> "ok"]
    /\ log' = DeletedItems(listWidget, name)
    /\ senders' = Without(senders, name)
    /\ senderControllers' = Without(senderControllers, name)
    /\ senderWindows' = Without(senderWindows, name)
    /\ UNCHANGED <<connections, shown, status, caught, station>>

\* StationWindow::removeName, the slot of StationController::droneNameRemoved.
removeName(name) ==
    /\ status = "running"
    /\ LET after == DeleteItems(listWidget, currentRow, name)
       IN  /\ listWidget' = after[1]
           /\ currentRow' = after[2]
    /\ last' = [op |-> "removeName", name |-> name, result |-> "ok"]
    /\ log' = DeletedItems(listWidget, name)
    /\ UNCHANGED <<maps, connections, shown, status, caught, station>>

\* The user makes row r the current item of the list widget.
selectItem(r) ==
    /\ status = "running"
    /\ r \in 1..Len(listWidget)
    /\ currentRow' = r
    /\ last' = [op |-> "selectItem", name |-> listWidget[r], result |-> "ok"]
    /\ log' = <<>>
    /\ UNCHANGED <<listWidget, maps, connections, shown, status, caught, station>>

----------------------------------------------------------------------------
(* StationWindow::startSenderHandler, the slot of the start button. *)

\* auto item = ui->listWidget->currentItem(); if (!item) ...
NoItem == currentRow = 0

\* A name that is in no item of the list: the text is not read from the item.
CurrentText_NotFromItem == "gamma"

\* QString name = item->text();
CurrentText == listWidget[currentRow]

\* The branch without its return: after the message box the handler goes on
\* and registers a Sender under the default-constructed name.
NoTargetSelected_FallsThrough ==
    /\ last' = [op |-> "startSenderHandler", name |-> "", result |-> "NoTargetSelected"]
    /\ log' = << <<"msgBox", "", 0>> >>
    /\ senders' = Assign(senders, "", FreshSenderId(""))
    /\ UNCHANGED <<listWidget, currentRow, senderControllers, senderWindows,
                   connections, shown, status, caught, station>>

\* if (!item) { msgBox.exec(); return; }
NoTargetSelected ==
    /\ last' = [op |-> "startSenderHandler", name |-> "", result |-> "NoTargetSelected"]
    /\ log' = << <<"msgBox", "", 0>> >>
    /\ UNCHANGED <<listWidget, currentRow, maps, connections, shown, status, caught, station>>

\* The map is overwritten by a map holding the new Sender alone.
RegisterSender_Reset(name, sid) == [k \in {name} |-> sid]

\* senders[name] = std::move(sender);
RegisterSender(name, sid) == Assign(senders, name, sid)

\* Lines 148 and 149 swapped: the SenderController is built on what the slot
\* senders[name] held before the new Sender is stored in it.
RegisterController_BeforeSender(name, c) ==
    Assign(senderControllers, name,
           [id |-> c.id,
            sender |-> IF name \in DOMAIN senders THEN senders[name] ELSE 0])

\* senderControllers[name] = std::move(senderController);
RegisterController(name, c) == Assign(senderControllers, name, c)

\* senderWindows[name] = std::move(w);
RegisterWindow(name, w) == Assign(senderWindows, name, w)

\* The connect statement executed twice.
Subscribe_Twice(c, w) == Connected(Connected(c, w), w)

\* connect(senderWindows[name].get(), &SenderWindow::closeSelf, this, ...)
Subscribe(c, w) == Connected(c, w)

\* The events of the assignment to a map slot that already holds an object:
\* the unique_ptr deletes the object it held.
Replaced(kind, m, name, id) ==
    IF name \in DOMAIN m THEN << <<kind, name, id>> >> ELSE <<>>

OldSenderId(name) == IF name \in DOMAIN senders THEN senders[name] ELSE 0
OldControllerId(name) ==
    IF name \in DOMAIN senderControllers THEN senderControllers[name].id ELSE 0
OldWindowId(name) ==
    IF name \in DOMAIN senderWindows THEN senderWindows[name].id ELSE 0

\* show() called on the new window before it is moved into the map.
WindowEvents_ShownBeforeRegistered(name, wid, replaced) ==
    << <<"new SenderWindow", name, wid>>,
       <<"show", name, wid>>,
       <<"register SenderWindow", name, wid>> >> \o replaced

\* Lines 151-154: the SenderWindow is constructed, moved into the map (which
\* deletes a window the slot held), and then shown.
WindowEvents(name, wid, replaced) ==
    << <<"new SenderWindow", name, wid>>,
       <<"register SenderWindow", name, wid>> >>
    \o replaced
    \o << <<"show", name, wid>> >>

\* Where an exception that leaves the slot takes the program: a caller that
\* catches it lets the event loop go on, otherwise the program terminates.
Unwound == IF caught < MaxCaught THEN {"running", "terminated"} ELSE {"terminated"}

\* Lines 144-160 for the selected name; fail names the new-expression that
\* throws.  An exception leaves the handler with what was assigned so far.
LaunchSender(name, fail) ==
    LET sid == FreshSenderId(name)
        cid == FreshControllerId(name)
        wid == FreshWindowId(name)
        oldw == <<name, OldWindowId(name)>>
        e148 == << <<"new Sender", name, sid>>,
                     <<"register Sender", name, sid>> >>
                  \o Replaced("delete Sender", senders, name, OldSenderId(name))
        e150 == << <<"new SenderController", name, cid>>,
                     <<"register SenderController", name, cid>> >>
                  \o Replaced("delete SenderController", senderControllers,
                              name, OldControllerId(name))
        e154 == WindowEvents(name, wid,
                             Replaced("delete SenderWindow", senderWindows,
                                      name, OldWindowId(name)))
        e160 == << <<"connect", name, wid>> >>
        thrown == [op |-> "startSenderHandler", name |-> name,
                   result |-> "ConstructionFailure"]
    IN  /\ UNCHANGED <<listWidget, currentRow, station>>
        /\ CASE fail = "sender" ->
                 /\ UNCHANGED <<maps, connections, shown>>
                 /\ status' \in Unwound
                 /\ caught' = IF status' = "running" THEN caught + 1 ELSE caught
                 /\ last' = thrown
                 /\ log' = <<>>
             [] fail = "controller" ->
                 /\ senders' = RegisterSender(name, sid)
                 /\ UNCHANGED <<senderControllers, senderWindows, connections, shown>>
                 /\ status' \in Unwound
                 /\ caught' = IF status' = "running" THEN caught + 1 ELSE caught
                 /\ last' = thrown
                 /\ log' = e148
             [] fail = "window" ->
                 /\ senders' = RegisterSender(name, sid)
                 /\ senderControllers' =
                        RegisterController(name, [id |-> cid, sender |-> sid])
                 /\ UNCHANGED <<senderWindows, connections, shown>>
                 /\ status' \in Unwound
                 /\ caught' = IF status' = "running" THEN caught + 1 ELSE caught
                 /\ last' = thrown
                 /\ log' = e148 \o e150
             [] OTHER ->
                 /\ senders' = RegisterSender(name, sid)
                 /\ senderControllers' =
                        RegisterController(name, [id |-> cid, sender |-> sid])
                 /\ senderWindows' =
                        RegisterWindow(name, [id |-> wid, controller |-> cid])
                 /\ shown' = (shown \ {oldw}) \cup {<<name, wid>>}
                 /\ connections' =
                        Subscribe(Disconnected(connections, oldw), <<name, wid>>)
                 /\ status' = "running"
                 /\ caught' = caught
                 /\ last' = [op |-> "startSenderHandler", name |-> name,
                             result |-> "ok"]
                 /\ log' = e148 \o e150 \o e154 \o e160

startSenderHandler ==
    /\ status = "running"
    /\ IF NoItem
       THEN NoTargetSelected
       ELSE \E fail \in Failures : LaunchSender(CurrentText, fail)

----------------------------------------------------------------------------
(* StationWindow::senderWindowCloseHandler, the slot of SenderWindow::closeSelf. *)

\* What m.erase(m.find(name)) can do.  For a key that is present the entry
\* is erased.  For a missing key find returns end() and erase(end()) is
\* undefined: the container is left as it was or loses an entry, and the
\* call may not return at all (see stop in CloseHandler).
EraseFound(m, name) ==
    IF name \in DOMAIN m
    THEN {[map |-> Without(m, name), ub |-> FALSE]}
    ELSE {[map |-> mm, ub |-> TRUE] :
             mm \in {m} \cup {Without(m, k) : k \in DOMAIN m}}

\* The three erase statements run in construction order.
EraseOrder_SenderFirst(ew, ec, es) == es \o ec \o ew

\* The order of the three erase statements: senderWindows (line 176), then
\* senderControllers (line 181), then senders (line 184).
EraseOrder(ew, ec, es) == ew \o ec \o es

\* The body of the slot for name; events is what led to the call.
CloseHandler(name, events) ==
    LET hasW == name \in DOMAIN senderWindows
        w == <<name, OldWindowId(name)>>
        e176 == IF hasW THEN << <<"delete SenderWindow", name, w[2]>> >> ELSE <<>>
    IN  /\ senderWindows' = IF hasW THEN Without(senderWindows, name)
                                    ELSE senderWindows
        /\ shown' = shown \ {w}
        /\ connections' = Disconnected(connections, w)
        /\ \E rc \in EraseFound(senderControllers, name),
              rs \in EraseFound(senders, name),
              stop \in {"no", "controllers", "senders"} :
             /\ (stop = "controllers") => rc.ub
             /\ (stop = "senders") => (rs.ub /\ ~rc.ub)
             /\ senderControllers' =
                    IF stop = "controllers" THEN senderControllers ELSE rc.map
             /\ senders' = IF stop = "no" THEN rs.map ELSE senders
             /\ status' = IF stop # "no" THEN "crashed"
                          ELSE IF rc.ub \/ rs.ub THEN "undefined"
                          ELSE "running"
             /\ last' = [op |-> "senderWindowCloseHandler", name |-> name,
                         result |-> IF rc.ub \/ (stop # "controllers" /\ rs.ub)
                                    THEN "undefined" ELSE "ok"]
             /\ log' = events \o EraseOrder(
                          e176,
                          IF rc.ub
                          THEN << <<"senderControllers.erase(end)", name, 0>> >>
                          ELSE << <<"delete SenderController", name,
                                    OldControllerId(name)>> >>,
                          IF stop = "controllers" THEN <<>>
                          ELSE IF rs.ub
                          THEN << <<"senders.erase(end)", name, 0>> >>
                          ELSE << <<"delete Sender", name, OldSenderId(name)>> >>)
        /\ UNCHANGED <<listWidget, currentRow, caught, station>>

\* The slot is invoked with a name (a repeated or stale closure notification
\* included).
senderWindowCloseHandler(name) ==
    /\ status = "running"
    /\ CloseHandler(name, <<>>)

\* The SenderWindow registered under name emits closeSelf(name): the slot
\* runs for a connection of that window, and not again once the window has
\* been destroyed by the slot.  Without a connection nothing runs.
closeSelf(name) ==
    /\ status = "running"
    /\ name \in DOMAIN senderWindows
    /\ LET w == <<name, senderWindows[name].id>>
       IN  IF w \in DOMAIN connections
           THEN CloseHandler(name, << <<"closeSelf", name, w[2]>> >>)
           ELSE /\ last' = [op |-> "closeSelf", name |-> name, result |-> "ignored"]
                /\ log' = << <<"closeSelf", name, w[2]>> >>
                /\ UNCHANGED <<listWidget, currentRow, maps, connections,
                               shown, status, caught, station>>

----------------------------------------------------------------------------
(* The Vicon stream, the status label and the dt label. *)

\* The order in which both stream handlers go through the settings inputs.
InputOrder ==
    <<"hostAddressLine", "hostPortLine", "viconGPSLine", "NorthMapComboBox">>

\* One setEnabled(enabled) call per settings input.
SetEnabledCalls(enabled) ==
    [i \in 1..Len(InputOrder) |->
        <<IF enabled THEN "setEnabled(true)" ELSE "setEnabled(false)",
          InputOrder[i], 0>>]

\* The user changes the text of a settings input; a disabled widget takes
\* no input.
editInput(w, text) ==
    /\ status = "running"
    /\ inputsEnabled[w]
    /\ text \in InputTexts[w]
    /\ inputs' = [inputs EXCEPT ![w] = text]
    /\ last' = [op |-> "editInput", name |-> w, result |-> "ok"]
    /\ log' = <<>>
    /\ UNCHANGED <<session, inputsEnabled, statusLabel, dtLabel>>

\* The settings are pushed to the controller after connectVicon().
ControllerCalls_ConnectFirst(settings) ==
    << <<"controller->connectVicon", "", 0>> >> \o settings

\* The calls launchViconStream makes on the controller, in their order.
ControllerCalls(settings) ==
    settings \o << <<"controller->connectVicon", "", 0>> >>

\* StationWindow::launchViconStream, the slot of actionConnect_Vicon.
launchViconStream ==
    /\ status = "running"
    /\ inputsEnabled' = [w \in SettingsInputs |-> FALSE]
    /\ last' = [op |-> "launchViconStream", name |-> "", result |-> "ok"]
    /\ log' = SetEnabledCalls(FALSE) \o ControllerCalls(
                << <<"controller->setHostAddress", inputs.hostAddressLine, 0>>,
                   <<"controller->setHostPort", inputs.hostPortLine,
                     toUShort(inputs.hostPortLine)>>,
                   <<"controller->setOriginGPS", inputs.viconGPSLine, 0>>,
                   <<"controller->setNorth", inputs.NorthMapComboBox, 0>> >>)
    /\ UNCHANGED <<session, inputs, statusLabel, dtLabel>>

\* stopViconStream that also writes the status label.
stopViconStream_SetsOffline ==
    /\ status = "running"
    /\ inputsEnabled' = [w \in SettingsInputs |-> TRUE]
    /\ statusLabel' = OffLine
    /\ last' = [op |-> "stopViconStream", name |-> "", result |-> "ok"]
    /\ log' = << <<"controller->disconnectVicon", "", 0>> >> \o SetEnabledCalls(TRUE)
    /\ UNCHANGED <<session, inputs, dtLabel>>

\* StationWindow::stopViconStream, the slot of actionDisconnect_Vicon.
stopViconStream ==
    /\ status = "running"
    /\ inputsEnabled' = [w \in SettingsInputs |-> TRUE]
    /\ last' = [op |-> "stopViconStream", name |-> "", result |-> "ok"]
    /\ log' = << <<"controller->disconnectVicon", "", 0>> >> \o SetEnabledCalls(TRUE)
    /\ UNCHANGED <<session, inputs, statusLabel, dtLabel>>

\* StationWindow::setOnline, the slot of StationController::viconConnected;
\* rate is what controller->getFrameRate() returns.
setOnline(rate) ==
    /\ status = "running"
    /\ statusLabel' = OnLine(rate)
    /\ last' = [op |-> "setOnline", name |-> "", result |-> "ok"]
    /\ log' = <<>>
    /\ UNCHANGED <<session, inputsEnabled, inputs, dtLabel>>

\* StationWindow::setOffline, the slot of StationController::viconDisconnected.
setOffline ==
    /\ status = "running"
    /\ statusLabel' = OffLine
    /\ last' = [op |-> "setOffline", name |-> "", result |-> "ok"]
    /\ log' = <<>>
    /\ UNCHANGED <<session, inputsEnabled, inputs, dtLabel>>

\* StationWindow::updatedt, the slot of StationController::dtUpdated.
updatedt(micros) ==
    /\ status = "running"
    /\ dtLabel' = <<"dt = ", Milliseconds(micros), " ms">>
    /\ last' = [op |-> "updatedt", name |-> "", result |-> "ok"]
    /\ log' = <<>>
    /\ UNCHANGED <<session, inputsEnabled, inputs, statusLabel>>

----------------------------------------------------------------------------
Next ==
    \/ \E name \in DroneNames : addName(name)
    \/ \E name \in DroneNames : removeName(name)
    \/ \E r \in 1..MaxItems : selectItem(r)
    \/ startSenderHandler
    \/ \E name \in DroneNames : closeSelf(name)
    \/ \E name \in DroneNames : senderWindowCloseHandler(name)

Spec == Init /\ [][Next]_vars

\* The roster handlers alone, driven with RosterNames.
NextRoster ==
    \/ \E name \in RosterNames : addName(name)
    \/ \E name \in RosterNames : removeName(name)
    \/ \E r \in 1..MaxItems : selectItem(r)

SpecRoster == Init /\ [][NextRoster]_vars

\* The settings inputs, the stream handlers and the label handlers.
NextStream ==
    \/ \E w \in SettingsInputs : \E text \in InputTexts[w] : editInput(w, text)
    \/ launchViconStream
    \/ stopViconStream
    \/ \E rate \in FrameRates : setOnline(rate)
    \/ setOffline
    \/ \E micros \in DtMicros : updatedt(micros)

SpecStream == Init /\ [][NextStream]_vars

\* startSenderHandler with every construction succeeding.
startSenderHandler_Succeeding ==
    /\ startSenderHandler
    /\ last'.result # "ConstructionFailure"

\* The handlers of the window together, the settings inputs left at their
\* texts and every construction succeeding.
NextStatus ==
    \/ \E rate \in FrameRates : setOnline(rate)
    \/ setOffline
    \/ launchViconStream
    \/ stopViconStream
    \/ \E micros \in DtMicros : updatedt(micros)
    \/ \E name \in DroneNames : addName(name)
    \/ \E name \in DroneNames : removeName(name)
    \/ \E r \in 1..MaxItems : selectItem(r)
    \/ startSenderHandler_Succeeding
    \/ \E name \in DroneNames : closeSelf(name)
    \/ \E name \in DroneNames : senderWindowCloseHandler(name)

SpecStatus == Init /\ [][NextStatus]_vars

----------------------------------------------------------------------------
(* Properties. *)

Range(seq) == {seq[i] : i \in 1..Len(seq)}

\* name is a key of all three maps / of none of them.
Registered(name) ==
    /\ name \in DOMAIN senders
    /\ name \in DOMAIN senderControllers
    /\ name \in DOMAIN senderWindows

Unregistered(name) ==
    /\ name \notin DOMAIN senders
    /\ name \notin DOMAIN senderControllers
    /\ name \notin DOMAIN senderWindows

\* C1: between handler invocations the three maps senders, senderControllers
\* and senderWindows have the same key set.
C1_SameKeySets ==
    (status = "running")
       => (/\ DOMAIN senders = DOMAIN senderControllers
           /\ DOMAIN senderControllers = DOMAIN senderWindows)

\* C2: startSenderHandler for a name that is already registered is rejected
\* with DuplicateSession and the registered Sender, SenderController and
\* SenderWindow stay the objects they were.
C2_DuplicateRejected ==
    [][(/\ last'.op = "startSenderHandler"
        /\ last'.result # "ConstructionFailure"
        /\ ~NoItem
        /\ Registered(CurrentText))
       => (/\ last'.result = "DuplicateSession"
           /\ senders' = senders
           /\ senderControllers' = senderControllers
           /\ senderWindows' = senderWindows)]_vars

\* C3: senderWindowCloseHandler(n) for a name n that is in none of the maps
\* completes normally and leaves the three maps as they were.
C3_RemoveUnregisteredNoOp ==
    [][(/\ last'.op = "senderWindowCloseHandler"
        /\ Unregistered(last'.name))
       => (/\ last'.result = "ok"
           /\ status' = "running"
           /\ senders' = senders
           /\ senderControllers' = senderControllers
           /\ senderWindows' = senderWindows)]_vars

\* C4: after closeSelf(n) of a registered session has been delivered, once or
\* a second time right after the first, n is in none of the maps and the
\* program runs on normally.
C4_ClosedOnceOrTwice ==
    [][(/\ last'.op = "senderWindowCloseHandler"
        /\ \/ (log' # <<>> /\ log'[1][1] = "closeSelf")
           \/ (/\ last.op = "senderWindowCloseHandler"
               /\ last.result = "ok"
               /\ last.name = last'.name
               /\ log # <<>> /\ log[1][1] = "closeSelf"))
       => (/\ last'.name \notin DOMAIN senders'
           /\ last'.name \notin DOMAIN senderControllers'
           /\ last'.name \notin DOMAIN senderWindows'
           /\ last'.result = "ok"
           /\ status' = "running")]_vars

\* C5: startSenderHandler with no current item shows the notice and changes
\* nothing: no object is constructed, the maps, the shown windows and the
\* connections stay as they were.
C5_NoTargetSelected ==
    [][(last'.op = "startSenderHandler" /\ NoItem)
       => (/\ last'.result = "NoTargetSelected"
           /\ log' = << <<"msgBox", "", 0>> >>
           /\ senders' = senders
           /\ senderControllers' = senderControllers
           /\ senderWindows' = senderWindows
           /\ connections' = connections
           /\ shown' = shown
           /\ status' = "running")]_vars

C5_Witness ==
    /\ last.op = "startSenderHandler"
    /\ last.result = "NoTargetSelected"
    /\ senders # EmptyMap

\* C6: a startSenderHandler in which a construction throws leaves the three
\* maps exactly as they were before the call.
C6_FailureLeavesRegistry ==
    [][(last'.op = "startSenderHandler" /\ last'.result = "ConstructionFailure")
       => (/\ senders' = senders
           /\ senderControllers' = senderControllers
           /\ senderWindows' = senderWindows)]_vars

\* C7: a successful startSenderHandler for a name n that is in none of the
\* maps puts n in each of the three maps and leaves the entries of all other
\* names as they were.
C7_CreateRegistersOnce ==
    [][(/\ last'.op = "startSenderHandler"
        /\ last'.result = "ok"
        /\ Unregistered(last'.name))
       => (/\ last'.name \in DOMAIN senders'
           /\ last'.name \in DOMAIN senderControllers'
           /\ last'.name \in DOMAIN senderWindows'
           /\ Without(senders', last'.name) = senders
           /\ Without(senderControllers', last'.name) = senderControllers
           /\ Without(senderWindows', last'.name) = senderWindows)]_vars

C7_Witness ==
    /\ last.op = "startSenderHandler"
    /\ last.result = "ok"
    /\ \A i \in 1..Len(log) : log[i][1] \notin
           {"delete Sender", "delete SenderController", "delete SenderWindow"}
    /\ Registered(last.name)
    /\ \E other \in DOMAIN senders : other # last.name

\* C8: no session is ever registered under the empty name.
C8_NoEmptyNameSession ==
    /\ "" \notin DOMAIN senders
    /\ "" \notin DOMAIN senderControllers
    /\ "" \notin DOMAIN senderWindows

\* The keys whose entry in m2 is new or differs from the one in m1.
ChangedKeys(m1, m2) ==
    {k \in DOMAIN m2 : k \notin DOMAIN m1 \/ m1[k] # m2[k]}

\* C9: startSenderHandler constructs and registers objects only under the
\* text of an item that is in the list at that moment; with an empty list it
\* answers NoTargetSelected and registers nothing; and closing the only
\* registered session leaves the three maps empty.
C9_OnlyRosterNames ==
    [][/\ (last'.op = "startSenderHandler")
          => (/\ \A k \in ChangedKeys(senders, senders')
                       \cup ChangedKeys(senderControllers, senderControllers')
                       \cup ChangedKeys(senderWindows, senderWindows') :
                    k = last'.name /\ k \in Range(listWidget)
              /\ \A i \in 1..Len(log') :
                    log'[i][1] = "new Sender" => log'[i][2] \in Range(listWidget)
              /\ (listWidget = <<>>)
                    => (last'.result = "NoTargetSelected" /\ maps' = maps))
       /\ (/\ last'.op = "senderWindowCloseHandler"
           /\ Registered(last'.name)
           /\ DOMAIN senders = {last'.name}
           /\ DOMAIN senderControllers = {last'.name}
           /\ DOMAIN senderWindows = {last'.name})
          => (/\ senders' = EmptyMap
              /\ senderControllers' = EmptyMap
              /\ senderWindows' = EmptyMap)]_vars

C9_Witness ==
    /\ last.op = "startSenderHandler"
    /\ last.result = "ok"
    /\ last.name = "alpha"
    /\ Registered("alpha")
    /\ Range(listWidget) = {"alpha", ""}

\* The SenderWindows that are alive: those the map owns.
LiveWindows == {<<n, senderWindows[n].id>> : n \in DOMAIN senderWindows}

\* The number of entries of log whose event is kind.
RECURSIVE CountEvents(_, _)
CountEvents(events, kind) ==
    IF events = <<>> THEN 0
    ELSE (IF Head(events)[1] = kind THEN 1 ELSE 0)
         + CountEvents(Tail(events), kind)

\* C10: every SenderWindow a map owns has exactly one closeSelf connection
\* and no destroyed window has any; and a closeSelf emitted by a registered
\* window removes that session exactly once.
C10_OneSubscriptionPerSession ==
    /\ DOMAIN connections = LiveWindows
    /\ \A w \in DOMAIN connections : connections[w] = 1
    /\ (log # <<>> /\ log[1][1] = "closeSelf")
          => (/\ last.op = "senderWindowCloseHandler"
              /\ CountEvents(log, "delete SenderWindow") = 1
              /\ CountEvents(log, "delete SenderController") = 1
              /\ CountEvents(log, "delete Sender") = 1
              /\ Unregistered(last.name))

C10_Witness ==
    /\ log # <<>> /\ log[1][1] = "closeSelf"
    /\ \E n \in DOMAIN senderWindows : senderWindows[n].id = 2
    /\ status = "running"

\* The place of the first event of that kind in events, 0 when there is none.
EventIndex(events, kind) ==
    IF \E i \in 1..Len(events) : events[i][1] = kind
    THEN CHOOSE i \in 1..Len(events) :
             /\ events[i][1] = kind
             /\ \A j \in 1..(i - 1) : events[j][1] # kind
    ELSE 0

\* C11: startSenderHandler constructs the Sender, then the SenderController
\* on the Sender that is already registered, then the SenderWindow on the
\* SenderController that is already registered; no object is constructed
\* before the one it is given is registered.
C11_ConstructionOrder ==
    /\ \A i \in 1..Len(log) :
          /\ (log[i][1] = "new SenderController")
                => \E j \in 1..(i - 1) :
                      /\ log[j][1] = "register Sender"
                      /\ log[j][2] = log[i][2]
                      /\ \E k \in 1..(j - 1) : log[k] = <<"new Sender", log[j][2], log[j][3]>>
          /\ (log[i][1] = "new SenderWindow")
                => \E j \in 1..(i - 1) :
                      /\ log[j][1] = "register SenderController"
                      /\ log[j][2] = log[i][2]
                      /\ \E k \in 1..(j - 1) :
                            log[k] = <<"new SenderController", log[j][2], log[j][3]>>
    /\ (last.op = "startSenderHandler" /\ last.result = "ok")
          => (/\ Registered(last.name)
              /\ senderControllers[last.name].sender = senders[last.name]
              /\ senderWindows[last.name].controller
                    = senderControllers[last.name].id
              /\ 0 < EventIndex(log, "new Sender")
              /\ EventIndex(log, "new Sender") < EventIndex(log, "new SenderController")
              /\ EventIndex(log, "new SenderController")
                    < EventIndex(log, "new SenderWindow"))

C11_Witness ==
    /\ last.op = "startSenderHandler"
    /\ last.result = "ok"
    /\ EventIndex(log, "delete Sender") > 0
    /\ EventIndex(log, "new SenderWindow") > 0

\* The events of a handler without the closeSelf that led to it.
IsErase(ev) == ev[1] # "closeSelf"

\* C12: senderWindowCloseHandler for a registered name destroys the
\* SenderWindow, then the SenderController, then the Sender; the erase from
\* senders is the last step and only after it is the name in none of the maps.
C12_DestructionOrder ==
    [][(last'.op = "senderWindowCloseHandler" /\ Registered(last'.name))
       => (/\ SelectSeq(log', IsErase) =
                << <<"delete SenderWindow", last'.name,
                     senderWindows[last'.name].id>>,
                   <<"delete SenderController", last'.name,
                     senderControllers[last'.name].id>>,
                   <<"delete Sender", last'.name, senders[last'.name]>> >>
           /\ last'.name \notin DOMAIN senders'
           /\ last'.name \notin DOMAIN senderControllers'
           /\ last'.name \notin DOMAIN senderWindows'
           /\ last'.result = "ok")]_vars

C12_Witness ==
    /\ last.op = "senderWindowCloseHandler"
    /\ last.result = "ok"
    /\ EventIndex(log, "delete SenderWindow") > 0
    /\ EventIndex(log, "delete Sender") = Len(log)
    /\ senders # EmptyMap

\* In the handler whose events are given, the object <<kind, n, id>> that was
\* alive when the handler began is still alive before event i.
AliveBefore(events, i, kind, n, id) ==
    ~\E j \in 1..(i - 1) : events[j] = <<kind, n, id>>

\* C13: at every step of a handler that runs without an exception, a
\* SenderController that is alive has the Sender it was constructed with
\* alive, and a SenderWindow that is alive has the SenderController it was
\* constructed with alive.
C13_NoDanglingDependency ==
    [][(last'.result = "ok")
       => (/\ \A i \in 1..Len(log') :
                /\ (log'[i][1] = "delete Sender")
                      => ~(/\ log'[i][2] \in DOMAIN senderControllers
                           /\ senderControllers[log'[i][2]].sender = log'[i][3]
                           /\ AliveBefore(log', i, "delete SenderController",
                                  log'[i][2], senderControllers[log'[i][2]].id))
                /\ (log'[i][1] = "delete SenderController")
                      => ~(/\ log'[i][2] \in DOMAIN senderWindows
                           /\ senderWindows[log'[i][2]].controller = log'[i][3]
                           /\ AliveBefore(log', i, "delete SenderWindow",
                                  log'[i][2], senderWindows[log'[i][2]].id))
           /\ \A n \in DOMAIN senderControllers' :
                n \in DOMAIN senders'
                   /\ senders'[n] = senderControllers'[n].sender
           /\ \A n \in DOMAIN senderWindows' :
                n \in DOMAIN senderControllers'
                   /\ senderControllers'[n].id = senderWindows'[n].controller)]_vars

\* C14: a SenderWindow is shown only after the Sender, the SenderController
\* and the SenderWindow have been registered under its name; a create that
\* fails shows nothing, and while the program runs every shown window
\* belongs to a name that is a key of all three maps.
C14_ShownAfterRegistration ==
    /\ \A i \in 1..Len(log) :
          (log[i][1] = "show")
             => (/\ \E j \in 1..(i - 1) :
                       log[j][1] = "register Sender" /\ log[j][2] = log[i][2]
                 /\ \E j \in 1..(i - 1) :
                       log[j][1] = "register SenderController"
                          /\ log[j][2] = log[i][2]
                 /\ \E j \in 1..(i - 1) :
                       log[j] = <<"register SenderWindow", log[i][2], log[i][3]>>)
    /\ (last.op = "startSenderHandler" /\ last.result # "ok")
          => EventIndex(log, "show") = 0
    /\ (status = "running")
          => \A w \in shown : w \in LiveWindows /\ Registered(w[1])

C14_Witness ==
    /\ last.op = "startSenderHandler"
    /\ last.result = "ok"
    /\ EventIndex(log, "show") > 0
    /\ \E w \in shown : w[1] = last.name

\* C15: addName and removeName leave the three maps, the connections and the
\* shown windows as they were; startSenderHandler and
\* senderWindowCloseHandler leave the list widget as it was.
C15_RosterAndSessionsIndependent ==
    [][/\ (last'.op \in {"addName", "removeName"})
          => (/\ senders' = senders
              /\ senderControllers' = senderControllers
              /\ senderWindows' = senderWindows
              /\ connections' = connections
              /\ shown' = shown)
       /\ (last'.op \in {"startSenderHandler", "senderWindowCloseHandler"})
          => (listWidget' = listWidget /\ currentRow' = currentRow)]_vars

C15_Witness ==
    /\ last.op = "removeName"
    /\ log # <<>>
    /\ last.name \notin Range(listWidget)
    /\ Registered(last.name)
    /\ <<last.name, senderWindows[last.name].id>> \in shown

\* The list without the items equal to name, the others in their order.
RECURSIVE Filtered(_, _)
Filtered(list, name) ==
    IF list = <<>> THEN <<>>
    ELSE (IF Head(list) = name THEN <<>> ELSE <<Head(list)>>)
         \o Filtered(Tail(list), name)

\* C16: removeName(n) removes every item whose text is exactly n and leaves
\* the other items as they were and in order; addName(n) appends an item
\* whether or not n is in the list already.
C16_RemoveNameRemovesAll ==
    [][/\ (last'.op = "removeName")
          => (/\ listWidget' = Filtered(listWidget, last'.name)
              /\ last'.name \notin Range(listWidget'))
       /\ (last'.op = "addName")
          => listWidget' = Append(listWidget, last'.name)]_vars

C16_Witness ==
    /\ last.op = "removeName"
    /\ last.name = "alpha"
    /\ Len(log) = 2
    /\ listWidget = <<"Alpha">>

\* Some call before position c of events is call.
CalledBefore(events, c, call) == \E i \in 1..(c - 1) : events[i] = call

\* C17: the four settings inputs are enabled at start, every
\* launchViconStream leaves all four disabled, every stopViconStream leaves
\* all four enabled and no other handler enables or disables one;
\* launchViconStream calls connectVicon once, after it has pushed the host
\* address, the host port (the number its text converts to), the origin GPS
\* and the north axis read from the four inputs; stopViconStream calls
\* disconnectVicon before it enables any input.
C17_StreamInputs ==
    /\ \A w \in SettingsInputs : inputsEnabled[w]
    /\ [][
          /\ (last'.op = "launchViconStream") =>
                /\ \A w \in SettingsInputs : ~inputsEnabled'[w]
                /\ CountEvents(log', "controller->connectVicon") = 1
                /\ LET c == EventIndex(log', "controller->connectVicon")
                   IN  /\ CalledBefore(log', c, <<"controller->setHostAddress",
                                                  inputs.hostAddressLine, 0>>)
                       /\ CalledBefore(log', c, <<"controller->setHostPort",
                                                  inputs.hostPortLine,
                                                  toUShort(inputs.hostPortLine)>>)
                       /\ CalledBefore(log', c, <<"controller->setOriginGPS",
                                                  inputs.viconGPSLine, 0>>)
                       /\ CalledBefore(log', c, <<"controller->setNorth",
                                                  inputs.NorthMapComboBox, 0>>)
          /\ (last'.op = "stopViconStream") =>
                /\ \A w \in SettingsInputs : inputsEnabled'[w]
                /\ CountEvents(log', "controller->disconnectVicon") = 1
                /\ \A i \in 1..Len(log') :
                      (log'[i][1] = "setEnabled(true)")
                         => EventIndex(log', "controller->disconnectVicon") < i
          /\ (last'.op \notin {"launchViconStream", "stopViconStream"}) =>
                inputsEnabled' = inputsEnabled
       ]_vars

\* The user has edited the port to a text that is no port number, the
\* stream was launched with it and a connection event arrived since: the
\* inputs are still disabled.
C17_Witness ==
    /\ last.op = "setOnline"
    /\ inputs.hostPortLine = "65536"
    /\ inputs.NorthMapComboBox = "+y"
    /\ \A w \in SettingsInputs : ~inputsEnabled[w]

\* C18: the status label shows OFF LINE at start; setOnline (viconConnected)
\* leaves it showing ON LINE with the frame rate, setOffline
\* (viconDisconnected) leaves it showing OFF LINE, and no other handler
\* changes it: the label always shows the last of the two signals.
C18_StatusFollowsConnection ==
    /\ statusLabel = OffLine
    /\ [][
          /\ (last'.op = "setOnline") =>
                /\ statusLabel'.text = "ON LINE"
                /\ statusLabel'.rate \in FrameRates
                /\ statusLabel'.color = "darkGreen"
          /\ (last'.op = "setOffline") => statusLabel' = OffLine
          /\ (last'.op \notin {"setOnline", "setOffline"}) =>
                statusLabel' = statusLabel
       ]_vars

\* The label shows ON LINE after the stream was stopped, a session is
\* registered and the dt label has been written: no viconDisconnected has
\* arrived since the last viconConnected.
C18_Witness ==
    /\ statusLabel.text = "ON LINE"
    /\ last.op = "stopViconStream"
    /\ Registered("alpha")
    /\ dtLabel[1] = "dt = "

====
